---- MODULE Spec2Model ----
(***************************************************************************)
(* Model of the Bee client class of bee-js (src/src/modules/bytes.ts):     *)
(* feed retrievability (isFeedRetrievable), the feed reader's lookup of    *)
(* the latest update, the owner resolution of getJsonFeed, the signer      *)
(* resolution of the writers, pssSubscribe / pssReceive, the size checks   *)
(* of uploadChunk and the per-call request options.                        *)
(*                                                                         *)
(* The feed helpers the class imports (./feed, ./feed/retrievable) follow  *)
(* the design document: sections 4.5 (Feed Reader), 4.6 (Retrievability    *)
(* Verifier) and 5 (concurrency).                                          *)
(***************************************************************************)
EXTENDS Integers, FiniteSets, Sequences, TLC

\* ---------------------------------------------------------------- bounds
\* Highest index at which the network may hold an update of the feed.
MaxIndex == 4
\* Largest number of fetches a reader or verifier keeps in flight.
Window == 2

\* ------------------------------------------------------------ the values
\* Private keys a caller may hand in as a signer.
Keys == {"k1", "k2"}
NoKey == "none"
\* Ethereum addresses: those of the keys.
Addresses == {"a1", "a2"}
NoAddress == "none"
\* The address a signer made from a key signs for (Signer.address).
AddrOfKey(k) == CASE k = "k1" -> "a1" [] k = "k2" -> "a2" [] OTHER -> NoAddress
\* The owner whose feed the network holds.
FeedOwner == "a1"
\* An owner or address argument as the caller passes it: a hex string or bytes.
NoAddressArg == [form |-> "none", a |-> NoAddress]
AddressArgs == [form : {"hex", "bytes"}, a : Addresses]

FeedTypes == {"sequence", "epoch"}

\* An index argument as the caller passes it: undefined, a number, or the
\* 8 big-endian bytes of a number (Index | number | IndexBytes | string).
\* Bytes are enumerated for the lowest and the highest index only: they differ
\* from the number in their truthiness alone.
NoIndex == [tag |-> "none", n |-> 0]
IndexArgs ==
  {NoIndex} \cup [tag : {"num"}, n : 0..MaxIndex] \cup [tag : {"bytes"}, n : {0, MaxIndex}]

\* Errors. status is the HTTP status of e.response (0: the error has no response).
NoError == [name |-> "none", status |-> 0, message |-> ""]
NotFoundError == [name |-> "BeeResponseError", status |-> 404, message |-> "Not Found"]
ServerError == [name |-> "BeeResponseError", status |-> 500, message |-> "Internal Server Error"]
NetworkError == [name |-> "Error", status |-> 0, message |-> "Network Error"]
\* What a fetch can fail with besides not-found.
TransportErrors == {ServerError, NetworkError}
BeeError(msg) == [name |-> "BeeError", status |-> 0, message |-> msg]

\* Return values, in one shape: a boolean, a feed update (its index) or parsed JSON.
NoValue == [t |-> "none", b |-> FALSE, i |-> 0]
RetBool(b) == [t |-> "bool", b |-> b, i |-> 0]
RetUpdate(i) == [t |-> "update", b |-> FALSE, i |-> i]
RetJson(i) == [t |-> "json", b |-> FALSE, i |-> i]

\* ----------------------------------------------------------------- state
VARIABLES
  signer,       \* this.signer: the key of the instance's default signer, or NoKey
  store,        \* the network: for each index of FeedOwner's feed, its chunk
  op,           \* the method of the call in progress
  pc,           \* where that call is
  feedType,     \* the call's feed type
  index,        \* isFeedRetrievable's index argument
  optSigner,    \* getJsonFeed's options.signer (a key, or NoKey)
  optAddress,   \* getJsonFeed's options.address (an address argument, or NoAddressArg)
  path,         \* the branch isFeedRetrievable took: "latest" or "chain"
  readerOwner,  \* the owner the feed reader or verifier was made for
  phase,        \* the reader's search phase: "zero", "exp" or "bin"
  lo,           \* reader: highest index reconciled as present; verifier: next index to reconcile
  hi,           \* reader: lowest index reconciled as absent / next doubling probe; verifier: target
  inflight,     \* indices with a fetch in flight
  known,        \* results of completed fetches not yet reconciled: index -> TRUE/FALSE
  fetched,      \* whether the call has issued any fetch
  reads,        \* how many times the call started a feed reader's download()
  readOutcome,  \* how download() ended: "none", "ok" or "error"
  readIndex,    \* the index download() resolved
  readError,    \* the error download() failed with
  failIdx,      \* the failing index the chain check identified (-1: none)
  result,       \* how the call ended: "pending", "return" or "throw"
  retval,       \* the value returned
  thrown,       \* the error thrown
  writer,       \* the FeedWriter / SOCWriter the last make call returned
  chunks,       \* the single owner chunks the writers stored: address and bytes
  written,      \* the writes made, in order: what was asked and what came back
  timeoutMsec,  \* pssReceive's timeoutMsec argument
  cancelled,    \* pssSubscribe's local flag `cancelled`
  wsState,      \* the subscription's websocket: "none", "open" or "closed"
  preparing,    \* messages whose prepareWebsocketData(ev.data) is awaited
  events,       \* how many message and error events the websocket has raised
  errorEvents,  \* how many of them were error events
  ignored,      \* how many messages were dropped as empty
  onMessageCalls, \* the invocations of handler.onMessage, in order
  onErrorCalls, \* how many times handler.onError was invoked
  timer,        \* pssReceive's timeout: "none", "armed", "cleared" or "fired"
  chunkArg,     \* uploadChunk's arguments
  requests,     \* how many upload requests uploadChunk issued
  url,          \* this.url
  requestOptions, \* this.requestOptions
  ctor,         \* what the constructor set url and requestOptions to
  effective,    \* the request options the last call ran with
  calls         \* how many calls were made on the instance

vars == <<signer, store, op, pc, feedType, index, optSigner, optAddress, path,
          readerOwner, phase, lo, hi, inflight, known, fetched, reads, readOutcome,
          readIndex, readError, failIdx, result, retval, thrown,
          writer, chunks, written,
          timeoutMsec, cancelled, wsState, preparing, events, errorEvents, ignored,
          onMessageCalls, onErrorCalls, timer,
          chunkArg, requests, url, requestOptions, ctor, effective, calls>>

callVars == <<op, feedType, index, optSigner, optAddress>>
readerVars == <<readerOwner, phase, lo, hi, inflight, known, fetched, reads>>
readResultVars == <<readOutcome, readIndex, readError>>
resultVars == <<result, retval, thrown>>
writerVars == <<writer, chunks, written>>
pssVars == <<timeoutMsec, cancelled, wsState, preparing, events, errorEvents, ignored,
             onMessageCalls, onErrorCalls, timer>>
chunkVars == <<chunkArg, requests>>
instVars == <<url, requestOptions, ctor, effective, calls>>
\* What the feed read operations never touch.
otherVars == <<writerVars, pssVars, chunkVars, instVars>>
\* What the operations outside the feed reads never touch.
feedVars == <<store, index, optAddress, path, readerVars, readResultVars, failIdx>>

\* ------------------------------------------------- the store collaborator
ChunkStates == {"missing", "valid", "invalid"}

\* fetch(address) followed by the SOC decode: TRUE when the chunk of `owner`'s
\* feed at index i exists and authenticates. A chunk that fails authentication
\* counts as missing; an index the network does not hold is missing.
Resolves(owner, i) ==
  /\ owner = FeedOwner
  /\ i \in DOMAIN store
  /\ store[i] = "valid"

\* Results of completed fetches are kept as pairs <<index, resolved>>.
KnownIdx(kn) == {k[1] : k \in kn}
KnownRes(kn, i) == CHOOSE b \in BOOLEAN : <<i, b>> \in kn

\* ------------------------------------ the feed reader's search (design 4.5)
\* readLatest, Sequence variant: index 0 first (FeedNotFound when absent), then
\* exponential search (1, 2, 4, 8, ... until a miss), then binary search in the
\* bracket between the last hit and the miss. A search state is
\* [phase, lo, hi]: lo the highest index found present, hi the lowest index
\* found absent (in phase "exp": the doubling probe to make next).
SearchStart == [phase |-> "zero", lo |-> 0, hi |-> 0]

\* The binary search ends when the bracket holds no index between lo and hi.
Bracketed_loose(l, h) == h - l <= 2
Bracketed(l, h) == h - l <= 1

Terminal(s) == s.phase \in {"found", "notfound"}

\* The index the search probes next.
Probe(s) ==
  CASE s.phase = "zero" -> 0
    [] s.phase = "exp" -> s.hi
    [] OTHER -> (s.lo + s.hi) \div 2

\* A bracket that holds no index between lo and hi settles the search at lo.
Settle_skipBinary(s) ==
  IF s.phase = "bin" THEN [s EXCEPT !.phase = "found"] ELSE s
Settle(s) ==
  IF s.phase = "bin" /\ Bracketed(s.lo, s.hi) THEN [s EXCEPT !.phase = "found"] ELSE s

\* The search state after the probe of index j came back (hit: it resolved).
After(s, j, hit) ==
  CASE s.phase = "zero" ->
         IF hit THEN [phase |-> "exp", lo |-> 0, hi |-> 1]
                ELSE [phase |-> "notfound", lo |-> 0, hi |-> 0]
    [] s.phase = "exp" ->
         IF hit THEN [phase |-> "exp", lo |-> j, hi |-> 2 * j]
                ELSE Settle([phase |-> "bin", lo |-> s.lo, hi |-> j])
    [] s.phase = "bin" ->
         IF hit THEN Settle([s EXCEPT !.lo = j]) ELSE Settle([s EXCEPT !.hi = j])
    [] OTHER -> s

\* The probes the search may need within its next d steps, whatever the
\* results: what a reader with fan-out may fetch ahead of time.
RECURSIVE Candidates(_, _)
Candidates(s, d) ==
  IF d = 0 \/ Terminal(s) THEN {}
  ELSE {Probe(s)} \cup Candidates(After(s, Probe(s), TRUE), d - 1)
                  \cup Candidates(After(s, Probe(s), FALSE), d - 1)

\* The results the reader may reconcile now: only the one of the probe the
\* search needs next, so that results are consumed in the search's own order.
ReaderDecidable_anyCompleted(s, kn) == KnownIdx(kn)
ReaderDecidable(s, kn) == {Probe(s)} \cap KnownIdx(kn)

\* The search run one probe at a time against the network.
RECURSIVE SeqSearch(_, _)
SeqSearch(owner, s) ==
  IF Terminal(s) THEN s
  ELSE SeqSearch(owner, After(s, Probe(s), Resolves(owner, Probe(s))))

ReaderState == [phase |-> phase, lo |-> lo, hi |-> hi]

RetReference(i) == [t |-> "reference", b |-> FALSE, i |-> i]

\* Feed topics, and a topic argument as the caller passes it: hex or bytes.
Topics == {"t1", "t2"}
NoTopic == [form |-> "none", t |-> "none"]
TopicArgs == [form : {"hex", "bytes"}, t : Topics]
Payloads == {"p1", "p2"}
NoWriter == [kind |-> "none", type |-> "none", topic |-> NoTopic, key |-> NoKey]

\* uploadChunk's arguments: whether the batch id is one, whether data is a
\* Uint8Array, data.length, and whether the upload options are valid.
NoChunkArg == [batchOk |-> TRUE, isBytes |-> TRUE, len |-> 0, optionsOk |-> TRUE]

\* A url as the caller passes it, and stripLastSlash of it.
Urls == [host : {"bee", "gateway"}, slash : BOOLEAN]
stripLastSlash(u) == [host |-> u.host, slash |-> FALSE]

\* The constructor's options (BeeOptions): a field left out is "unset".
NoCtorOptions == [timeout |-> "unset", headers |-> "unset"]
CtorOptions == [timeout : {"unset", "t9"}, headers : {"unset", "h0"}]
\* The request options passed to one call (BeeRequestOptions), or none.
NoCallOptions == [given |-> FALSE, timeout |-> "unset", headers |-> "unset"]
CallOptions ==
  {NoCallOptions} \cup [given : {TRUE}, timeout : {"unset", "t5"}, headers : {"unset", "h1"}]

\* ------------------------------------------------------------------ Init
\* No writer was made and nothing was written.
WriterIdle ==
  /\ writer = NoWriter
  /\ chunks = {}
  /\ written = <<>>

\* No subscription was made.
PssIdle ==
  /\ timeoutMsec = 0
  /\ cancelled = FALSE
  /\ wsState = "none"
  /\ preparing = {}
  /\ events = 0
  /\ errorEvents = 0
  /\ ignored = 0
  /\ onMessageCalls = <<>>
  /\ onErrorCalls = 0
  /\ timer = "none"

\* uploadChunk was not called.
ChunkIdle ==
  /\ chunkArg = NoChunkArg
  /\ requests = 0

\* The instance as the constructor leaves it for the url and options given.
Constructed(u, o) ==
  /\ url = stripLastSlash(u)
  /\ requestOptions = [baseURL |-> stripLastSlash(u),
                       timeout |-> IF o.timeout = "unset" THEN "false" ELSE o.timeout,
                       headers |-> o.headers]
  /\ ctor = [url |-> url, signer |-> signer, requestOptions |-> requestOptions]
  /\ effective = [for |-> NoCallOptions, options |-> requestOptions]
  /\ calls = 0

\* An instance made for the node's url with no options.
InstIdle == Constructed([host |-> "bee", slash |-> FALSE], NoCtorOptions)

OtherIdle == WriterIdle /\ PssIdle /\ ChunkIdle /\ InstIdle

\* No call has started yet.
InitCall ==
  /\ op = "none"
  /\ pc = "idle"
  /\ feedType = "sequence"
  /\ index = NoIndex
  /\ optSigner = NoKey
  /\ optAddress = NoAddressArg
  /\ path = "none"
  /\ readerOwner = NoAddress
  /\ phase = "zero"
  /\ lo = 0
  /\ hi = 0
  /\ inflight = {}
  /\ known = {}
  /\ fetched = FALSE
  /\ reads = 0
  /\ readOutcome = "none"
  /\ readIndex = 0
  /\ readError = NoError
  /\ failIdx = -1
  /\ result = "pending"
  /\ retval = NoValue
  /\ thrown = NoError

\* The feed operations: any network content; they never read this.signer.
Init ==
  /\ signer = NoKey
  /\ store \in [0..MaxIndex -> ChunkStates]
  /\ InitCall
  /\ OtherIdle

\* --------------------------------------------- canonicalization of inputs
\* makeEthAddress / makeHexEthAddress: a hex string or bytes to the address.
makeEthAddress(arg) == arg.a

\* What starting a feed reader's download() sets: the reader made for `owner`
\* begins the search (Sequence) or the single epoch lookup (Epoch).
StartRead(type, owner) ==
  /\ readerOwner' = owner
  /\ phase' = "zero"
  /\ lo' = 0
  /\ hi' = 0
  /\ inflight' = {}
  /\ known' = {}
  /\ fetched' = FALSE
  /\ reads' = reads + 1
  /\ pc' = IF type = "sequence" THEN "reading" ELSE "epochLookup"

\* ---------------------------------------------- the reader's steps (4.5, 5)
\* A probe is issued: one the search may need within Window steps, while fewer
\* than Window fetches are in flight.
ReaderIssue(i) ==
  /\ pc = "reading"
  /\ i \in Candidates(ReaderState, Window)
  /\ i \notin inflight
  /\ i \notin KnownIdx(known)
  /\ Cardinality(inflight) < Window
  /\ inflight' = inflight \cup {i}
  /\ fetched' = TRUE
  /\ UNCHANGED reads
  /\ UNCHANGED <<signer, otherVars, store, callVars, path, readerOwner, phase, lo, hi, known,
                 readResultVars, failIdx, resultVars, pc>>

\* A fetch in flight completes, in any order: its chunk resolved or not.
ReaderComplete(i) ==
  /\ pc = "reading"
  /\ i \in inflight
  /\ inflight' = inflight \ {i}
  /\ known' = known \cup {<<i, Resolves(readerOwner, i)>>}
  /\ UNCHANGED <<signer, otherVars, store, callVars, path, readerOwner, phase, lo, hi, fetched, reads,
                 readResultVars, failIdx, resultVars, pc>>

\* A fetch in flight fails at the transport: download() fails with that error.
ReaderFail(i, e) ==
  /\ pc = "reading"
  /\ i \in inflight
  /\ inflight' = {}
  /\ known' = {}
  /\ phase' = "zero"
  /\ lo' = 0
  /\ hi' = 0
  /\ readOutcome' = "error"
  /\ readError' = e
  /\ pc' = "readDone"
  /\ UNCHANGED <<signer, otherVars, store, callVars, path, readerOwner, fetched, reads,
                 readIndex, failIdx, resultVars>>

\* The result the search needs next is reconciled. When the search ends,
\* download() ends, the fetches still in flight are abandoned and the
\* search's locals go out of scope.
ReaderReconcile ==
  /\ pc = "reading"
  /\ \E j \in ReaderDecidable(ReaderState, known) :
       LET s == After(ReaderState, j, KnownRes(known, j))
           keep == Candidates(s, Window)
       IN /\ phase' = IF Terminal(s) THEN "zero" ELSE s.phase
          /\ lo' = IF Terminal(s) THEN 0 ELSE s.lo
          /\ hi' = IF Terminal(s) THEN 0 ELSE s.hi
          /\ inflight' = inflight \cap keep
          /\ known' = {k \in known : k[1] \in keep /\ k[1] # j}
          /\ IF Terminal(s)
               THEN /\ pc' = "readDone"
                    /\ readOutcome' = IF s.phase = "found" THEN "ok" ELSE "error"
                    /\ readIndex' = s.lo
                    /\ readError' = IF s.phase = "found" THEN NoError ELSE NotFoundError
               ELSE /\ pc' = pc
                    /\ UNCHANGED readResultVars
  /\ UNCHANGED <<signer, otherVars, store, callVars, path, readerOwner, fetched, reads, failIdx, resultVars>>

\* readLatest, Epoch variant: the lookup of an epoch feed is one exchange with
\* the network, whose epoch chunks are not modelled: it resolves, is not found,
\* or fails at the transport.
EpochLookup ==
  /\ pc = "epochLookup"
  /\ \E e \in {NoError, NotFoundError} \cup TransportErrors :
       /\ readOutcome' = IF e = NoError THEN "ok" ELSE "error"
       /\ readError' = e
  /\ readIndex' = 0
  /\ pc' = "readDone"
  /\ UNCHANGED <<signer, otherVars, store, callVars, path, readerVars, failIdx, resultVars>>

\* ------------------------------------------- makeFeedReader(...).download()
\* Bee.makeFeedReader canonicalizes topic and owner and hands them to the feed
\* reader; its download() resolves the latest update.
Download(type, owner) ==
  /\ pc = "idle"
  /\ op' = "download"
  /\ feedType' = type
  /\ StartRead(type, makeEthAddress(owner))
  /\ UNCHANGED <<signer, otherVars, store, index, optSigner, optAddress, path,
                 readResultVars, failIdx, resultVars>>

DownloadSettle ==
  /\ pc = "readDone"
  /\ op = "download"
  /\ pc' = "done"
  /\ result' = IF readOutcome = "ok" THEN "return" ELSE "throw"
  /\ retval' = IF readOutcome = "ok" THEN RetUpdate(readIndex) ELSE NoValue
  /\ thrown' = readError
  /\ UNCHANGED <<signer, otherVars, store, callVars, path, readerVars, readResultVars, failIdx>>

\* -------------------------------------------------- Bee.isFeedRetrievable
\* `!index`: JavaScript's falsiness of the index argument. undefined is falsy,
\* and so is the number 0; bytes (a Uint8Array) are truthy whatever they hold.
IsFalsy(idx) == idx.tag = "none" \/ (idx.tag = "num" /\ idx.n = 0)

\* `type !== 'sequence'`: the feed types the chain check refuses.
IsUnsupportedType_inverted(type) == type = "sequence"
IsUnsupportedType_never(type) == FALSE
IsUnsupportedType(type) == type # "sequence"

\* `e?.response?.status === 404`: the errors the no-index path turns into false.
IsNotFound_never(e) == FALSE
IsNotFound_always(e) == TRUE
IsNotFound(e) == e.status = 404

\* The number an index argument stands for (8 big-endian bytes, or the number).
NumericIndex(idx) == idx.n

UnsupportedTypeError == BeeError("Only Sequence type of Feeds is supported at the moment")

\* The call up to its first await: the latest-update read when `!index`, else
\* the BeeError for a feed type other than sequence, else the chain check.
IsFeedRetrievable(type, owner, idx) ==
  /\ pc = "idle"
  /\ op' = "isFeedRetrievable"
  /\ feedType' = type
  /\ index' = idx
  /\ IF IsFalsy(idx)
       THEN /\ path' = "latest"
            /\ StartRead(type, makeEthAddress(owner))
            /\ UNCHANGED resultVars
       ELSE IF IsUnsupportedType(type)
         THEN /\ path' = "none"
              /\ readerOwner' = makeEthAddress(owner)
              /\ pc' = "done"
              /\ result' = "throw"
              /\ thrown' = UnsupportedTypeError
              /\ UNCHANGED <<phase, lo, hi, inflight, known, fetched, reads, retval>>
         ELSE /\ path' = "chain"
              /\ readerOwner' = makeEthAddress(owner)
              /\ pc' = "chain"
              /\ lo' = 0
              /\ hi' = NumericIndex(idx)
              /\ UNCHANGED <<phase, inflight, known, fetched, reads, resultVars>>
  /\ UNCHANGED <<signer, otherVars, store, optSigner, optAddress, readResultVars, failIdx>>

\* After `await ...download()`: true when it succeeded; in the catch, false for
\* a 404 and the same error thrown again for anything else.
IsFeedRetrievableSettle ==
  /\ pc = "readDone"
  /\ op = "isFeedRetrievable"
  /\ pc' = "done"
  /\ IF readOutcome = "ok"
       THEN /\ result' = "return"
            /\ retval' = RetBool(TRUE)
            /\ thrown' = NoError
       ELSE IF IsNotFound(readError)
         THEN /\ result' = "return"
              /\ retval' = RetBool(FALSE)
              /\ thrown' = NoError
         ELSE /\ result' = "throw"
              /\ retval' = NoValue
              /\ thrown' = readError
  /\ UNCHANGED <<signer, otherVars, store, callVars, path, readerVars, readResultVars, failIdx>>

\* ------------------------------- the chain check (design 4.6 and 5)
\* areAllSequentialFeedsUpdateRetrievable: every index 0..target must resolve.
\* Fetches are issued in index order for a window of Window indices from the
\* lowest index not yet reconciled (lo), complete in any order, and are
\* reconciled in index order.
ChainIssue(i) ==
  /\ pc = "chain"
  /\ i \in lo..hi
  /\ i < lo + Window
  /\ \A j \in lo..hi : (j \in inflight \/ j \in KnownIdx(known)) <=> j < i
  /\ inflight' = inflight \cup {i}
  /\ fetched' = TRUE
  /\ UNCHANGED reads
  /\ UNCHANGED <<signer, otherVars, store, callVars, path, readerOwner, phase, lo, hi, known,
                 readResultVars, failIdx, resultVars, pc>>

ChainComplete(i) ==
  /\ pc = "chain"
  /\ i \in inflight
  /\ inflight' = inflight \ {i}
  /\ known' = known \cup {<<i, Resolves(readerOwner, i)>>}
  /\ UNCHANGED <<signer, otherVars, store, callVars, path, readerOwner, phase, lo, hi, fetched, reads,
                 readResultVars, failIdx, resultVars, pc>>

\* A fetch fails at the transport: the error is passed through to the caller.
ChainFail(i, e) ==
  /\ pc = "chain"
  /\ i \in inflight
  /\ inflight' = {}
  /\ known' = {}
  /\ lo' = 0
  /\ hi' = 0
  /\ pc' = "done"
  /\ result' = "throw"
  /\ thrown' = e
  /\ UNCHANGED <<signer, otherVars, store, callVars, path, readerOwner, phase, fetched, reads,
                 readResultVars, failIdx, retval>>

\* The results the verifier may decide on now: only the one of the lowest index
\* not yet reconciled.
ChainDecidable_anyCompleted(l, kn) == KnownIdx(kn)
ChainDecidable(l, kn) == {l} \cap KnownIdx(kn)

\* The lowest unreconciled result is reconciled: a miss ends the check with
\* false and that index as the failure; a hit at the target ends it with true.
ChainReconcile ==
  /\ pc = "chain"
  /\ \E j \in ChainDecidable(lo, known) :
       IF ~KnownRes(known, j)
         THEN /\ failIdx' = j
              /\ result' = "return"
              /\ retval' = RetBool(FALSE)
              /\ pc' = "done"
              /\ inflight' = {}
              /\ known' = {}
              /\ lo' = 0
              /\ hi' = 0
         ELSE /\ j = lo
              /\ UNCHANGED failIdx
              /\ IF lo = hi
                   THEN /\ result' = "return"
                        /\ retval' = RetBool(TRUE)
                        /\ pc' = "done"
                        /\ inflight' = {}
                        /\ known' = {}
                        /\ lo' = 0
                        /\ hi' = 0
                   ELSE /\ lo' = lo + 1
                        /\ known' = known \ {<<j, TRUE>>}
                        /\ UNCHANGED <<result, retval, pc, inflight, hi>>
  /\ UNCHANGED <<signer, otherVars, store, callVars, path, readerOwner, phase, fetched, reads,
                 readResultVars, thrown>>

\* ---------------------------------------------------------- Bee.getJsonFeed
TypeError(msg) == [name |-> "TypeError", status |-> 0, message |-> msg]

\* A signer argument: a private key, or something that is no key at all.
SignerArgs == Keys \cup {"malformed"}

\* makeSigner: the Signer of a key; a TypeError for what is no key.
makeSigner(k) ==
  IF k \in Keys
    THEN [ok |-> TRUE, key |-> k, error |-> NoError]
    ELSE [ok |-> FALSE, key |-> NoKey, error |-> TypeError("invalid signer")]

NoSignerError ==
  BeeError("You have to pass Signer as property to either the method call or constructor! Non found.")

\* (variant that goes on with no signer at all)
resolveSigner_unchecked(sgn, default) ==
  IF sgn # NoKey THEN makeSigner(sgn)
  ELSE [ok |-> TRUE, key |-> default, error |-> NoError]
resolveSigner_defaultFirst(sgn, default) ==
  IF default # NoKey THEN [ok |-> TRUE, key |-> default, error |-> NoError]
  ELSE IF sgn # NoKey THEN makeSigner(sgn)
  ELSE [ok |-> FALSE, key |-> NoKey, error |-> NoSignerError]
\* Bee.resolveSigner: the signer passed to the call when there is one, else the
\* instance's default signer, else a BeeError.
resolveSigner(sgn, default) ==
  IF sgn # NoKey THEN makeSigner(sgn)
  ELSE IF default # NoKey THEN [ok |-> TRUE, key |-> default, error |-> NoError]
  ELSE [ok |-> FALSE, key |-> NoKey, error |-> NoSignerError]

BothGivenError == BeeError("Both options \"signer\" and \"address\" can not be specified at one time!")
NoOwnerError == BeeError("Either address, signer or default signer has to be specified!")

\* (variant that lets options.address win when both are given)
ResolveOwner_addressWins(sgn, addr, default) ==
  IF addr # NoAddressArg
    THEN [ok |-> TRUE, address |-> makeEthAddress(addr), error |-> NoError]
  ELSE LET r == resolveSigner(sgn, default)
       IN IF r.ok THEN [ok |-> TRUE, address |-> AddrOfKey(r.key), error |-> NoError]
          ELSE [ok |-> FALSE, address |-> NoAddress, error |-> NoOwnerError]

\* The owner getJsonFeed reads from: options.signer and options.address exclude
\* each other; options.address is used when given; else the resolved signer's
\* address, a BeeError of resolveSigner being replaced by another BeeError and
\* any other error thrown on.
ResolveOwner(sgn, addr, default) ==
  IF sgn # NoKey /\ addr # NoAddressArg
    THEN [ok |-> FALSE, address |-> NoAddress, error |-> BothGivenError]
  ELSE IF addr # NoAddressArg
    THEN [ok |-> TRUE, address |-> makeEthAddress(addr), error |-> NoError]
  ELSE LET r == resolveSigner(sgn, default)
       IN IF r.ok THEN [ok |-> TRUE, address |-> AddrOfKey(r.key), error |-> NoError]
          ELSE IF r.error.name = "BeeError"
            THEN [ok |-> FALSE, address |-> NoAddress, error |-> NoOwnerError]
            ELSE [ok |-> FALSE, address |-> NoAddress, error |-> r.error]

\* The call up to its first await: the owner is resolved and the feed reader
\* made for it starts its download, or the call fails before any read.
GetJsonFeed(type, sgn, addr) ==
  /\ pc = "idle"
  /\ op' = "getJsonFeed"
  /\ feedType' = type
  /\ optSigner' = sgn
  /\ optAddress' = addr
  /\ LET r == ResolveOwner(sgn, addr, signer)
     IN IF r.ok
          THEN /\ StartRead(type, r.address)
               /\ UNCHANGED resultVars
          ELSE /\ pc' = "done"
               /\ result' = "throw"
               /\ thrown' = r.error
               /\ UNCHANGED <<readerVars, retval>>
  /\ UNCHANGED <<signer, otherVars, store, index, path, readResultVars, failIdx>>

\* After the reader's download: the update's data parsed as JSON, or the
\* reader's error.
GetJsonFeedSettle ==
  /\ pc = "readDone"
  /\ op = "getJsonFeed"
  /\ pc' = "done"
  /\ result' = IF readOutcome = "ok" THEN "return" ELSE "throw"
  /\ retval' = IF readOutcome = "ok" THEN RetJson(readIndex) ELSE NoValue
  /\ thrown' = readError
  /\ UNCHANGED <<signer, otherVars, store, callVars, path, readerVars, readResultVars, failIdx>>

\* ------------------------------------------------ the writers (4.2-4.4)
\* makeTopic: a hex string or bytes to the canonical topic.
makeTopic(arg) == [form |-> "bytes", t |-> arg.t]
\* Bee.makeFeedTopic: the hash of a human readable string, as a hex topic.
makeFeedTopic(str) == [form |-> "hex", t |-> str]
\* The topic string setJsonFeed is called with.
JsonTopic == "t1"

\* The writer Bee.makeFeedWriter hands out: made for the canonical topic and
\* the resolved signer.
CanonicalWriter_rawTopic(type, topicArg, key) ==
  [kind |-> "feed", type |-> type, topic |-> topicArg, key |-> key]
CanonicalWriter(type, topicArg, key) ==
  [kind |-> "feed", type |-> type, topic |-> makeTopic(topicArg), key |-> key]

\* nextIndex: the index after the prior one, the first index when there is none.
nextIndex(prior) == IF prior.tag = "none" THEN 0 ELSE prior.n + 1
\* encodeIndex: the index bytes depend on the feed type.
encodeIndex(type, i) == [type |-> type, n |-> i]
\* The identifier hash(topic || index bytes) and the address
\* hash(identifier || owner): injective, so they are their preimages.
deriveIdentifier(topic, indexBytes) == [topic |-> topic, index |-> indexBytes]
deriveAddress(identifier, owner) == [identifier |-> identifier, owner |-> owner]
\* Signer.sign: the signature of a digest, recoverable to the key's address.
Sign(key, digest) == [by |-> AddrOfKey(key), over |-> digest]
\* The bytes of a single owner chunk: identifier, signature, payload.
SocBytes(key, identifier, payload) ==
  [identifier |-> identifier,
   signature |-> Sign(key, [identifier |-> identifier, payload |-> payload]),
   payload |-> payload]

\* store(bytes): a chunk is stored once; storing at an address that holds a
\* chunk already is a no-op.
StoreChunk(cs, c) ==
  IF \E x \in cs : x.address = c.address THEN cs ELSE cs \cup {c}

\* write(signer, topic, feedType, priorIndex, payload): the chunk the writer
\* builds for the next index.
FeedChunk(w, prior, payload) ==
  LET identifier == deriveIdentifier(w.topic, encodeIndex(w.type, nextIndex(prior)))
  IN [address |-> deriveAddress(identifier, AddrOfKey(w.key)),
      bytes |-> SocBytes(w.key, identifier, payload)]

\* The record of one write: what was asked and what came back.
WriteRecord(w, prior, payload, cs) ==
  LET c == FeedChunk(w, prior, payload)
  IN [key |-> w.key, topic |-> w.topic.t, type |-> w.type, payload |-> payload,
      index |-> nextIndex(prior), address |-> c.address, bytes |-> c.bytes,
      changed |-> StoreChunk(cs, c) # cs]

\* The latest index of the writer's feed among the stored chunks, as a prior index.
LatestWritten(w, cs) ==
  LET own == {c.address.identifier.index.n : c \in
                {x \in cs : /\ x.address.owner = AddrOfKey(w.key)
                            /\ x.address.identifier.topic = w.topic
                            /\ x.address.identifier.index.type = w.type}}
  IN IF own = {} THEN NoIndex
     ELSE [tag |-> "num", n |-> CHOOSE i \in own : \A j \in own : j <= i]

\* Most writes one behaviour makes.
MaxWrites == 2

\* A call that makes a writer may start: no call was made yet, or the last one
\* made a writer or wrote through one.
MayMakeWriter ==
  \/ pc = "idle"
  \/ pc = "done" /\ op \in {"makeFeedWriter", "makeSOCWriter", "upload", "request"}

\* What a call that needs a signer does with it: the writer w, made with the
\* resolved signer, is returned, or the call throws resolveSigner's error.
WithSigner(sgn, w) ==
  LET r == resolveSigner(sgn, signer)
  IN /\ pc' = "done"
     /\ IF r.ok
          THEN /\ writer' = [w EXCEPT !.key = r.key]
               /\ result' = "return"
               /\ thrown' = NoError
          ELSE /\ writer' = NoWriter
               /\ result' = "throw"
               /\ thrown' = r.error
     /\ retval' = NoValue

\* Bee.makeFeedWriter, for valid request options and a valid feed type.
MakeFeedWriter(type, topicArg, sgn) ==
  /\ MayMakeWriter
  /\ op' = "makeFeedWriter"
  /\ feedType' = type
  /\ optSigner' = sgn
  /\ WithSigner(sgn, CanonicalWriter(type, topicArg, NoKey))
  /\ UNCHANGED <<signer, feedVars, pssVars, chunkVars, instVars, chunks, written>>

\* Bee.makeSOCWriter: the writer's reader is made for the signer's address.
MakeSOCWriter(sgn) ==
  /\ MayMakeWriter
  /\ op' = "makeSOCWriter"
  /\ optSigner' = sgn
  /\ WithSigner(sgn, [kind |-> "soc", type |-> "none", topic |-> NoTopic, key |-> NoKey])
  /\ UNCHANGED <<signer, feedVars, pssVars, chunkVars, instVars, feedType, chunks, written>>

\* FeedWriter.upload through the writer last made.
WriterUpload(prior, payload) ==
  /\ pc = "done"
  /\ op \in {"makeFeedWriter", "upload"}
  /\ writer.kind = "feed"
  /\ Len(written) < MaxWrites
  /\ op' = "upload"
  /\ chunks' = StoreChunk(chunks, FeedChunk(writer, prior, payload))
  /\ written' = Append(written, WriteRecord(writer, prior, payload, chunks))
  /\ result' = "return"
  /\ retval' = RetReference(nextIndex(prior))
  /\ thrown' = NoError
  /\ UNCHANGED <<signer, feedVars, pssVars, chunkVars, instVars, feedType, optSigner, pc, writer>>

\* Bee.setJsonFeed up to its first await, for valid options and a valid batch
\* id: the writer is made, or the call fails.
SetJsonFeed(type, sgn) ==
  /\ pc = "idle"
  /\ op' = "setJsonFeed"
  /\ feedType' = type
  /\ optSigner' = sgn
  /\ LET r == resolveSigner(sgn, signer)
     IN IF r.ok
          THEN /\ writer' = CanonicalWriter(type, makeFeedTopic(JsonTopic), r.key)
               /\ pc' = "writing"
               /\ UNCHANGED resultVars
          ELSE /\ writer' = NoWriter
               /\ pc' = "done"
               /\ result' = "throw"
               /\ thrown' = r.error
               /\ UNCHANGED retval
  /\ UNCHANGED <<signer, feedVars, pssVars, chunkVars, instVars, chunks, written>>

\* setJsonData: the data is uploaded and the writer writes its reference at the
\* index after the feed's latest one.
SetJsonFeedWrite(payload) ==
  /\ pc = "writing"
  /\ op = "setJsonFeed"
  /\ pc' = "done"
  /\ LET prior == LatestWritten(writer, chunks)
     IN /\ chunks' = StoreChunk(chunks, FeedChunk(writer, prior, payload))
        /\ written' = Append(written, WriteRecord(writer, prior, payload, chunks))
        /\ retval' = RetReference(nextIndex(prior))
  /\ result' = "return"
  /\ thrown' = NoError
  /\ UNCHANGED <<signer, feedVars, pssVars, chunkVars, instVars, feedType, optSigner, op, writer>>

\* setJsonData fails with what the transport failed with; nothing is written.
SetJsonFeedFail(e) ==
  /\ pc = "writing"
  /\ op = "setJsonFeed"
  /\ pc' = "done"
  /\ result' = "throw"
  /\ thrown' = e
  /\ UNCHANGED <<signer, feedVars, pssVars, chunkVars, instVars, feedType, optSigner, op, writerVars, retval>>

\* ------------------------------------------- pssSubscribe and pssReceive
\* What neither of them touches.
outsidePss == <<signer, feedVars, feedType, optSigner, writerVars, chunkVars, instVars>>

\* Most message and error events one websocket raises.
MaxEvents == 3

\* ev.data of a message event: a string or a Blob, empty or not.
EventData == [form : {"string", "blob"}, content : {<<>>, <<"x">>}]
\* prepareWebsocketData: the bytes of ev.data.
prepareWebsocketData(d) == [form |-> "bytes", content |-> d.content]

\* ws.onmessage hands a message to the handler: `if (data.length > 0)`.
Deliverable_always(data) == TRUE
Deliverable(data) == Len(data.content) > 0

\* ws.onerror hands an error to the handler: `if (!cancelled)`.
ReportsError_always(c) == TRUE
ReportsError(c) == ~c

\* pssReceive arms the timeout: `if (timeoutMsec > 0)`.
TimerArmed_never(t) == FALSE
TimerArmed(t) == t > 0

TimeoutError == BeeError("pssReceive timeout")
\* pssReceive's onError rejects with error.message, a string.
ErrorMessage(msg) == [name |-> "string", status |-> 0, message |-> msg]
RetMessage(n) == [t |-> "message", b |-> FALSE, i |-> n]

\* subscription.cancel(): the first call sets the flag and closes the websocket.
DoCancel ==
  /\ cancelled' = TRUE
  /\ wsState' = IF cancelled = FALSE THEN "closed" ELSE wsState

\* clearTimeout(timeout)
ClearTimeout == timer' = IF timer = "armed" THEN "cleared" ELSE timer

\* resolve / reject: a promise settles once.
Settles(how, value, error) ==
  IF result = "pending" /\ op = "pssReceive"
    THEN /\ result' = how
         /\ retval' = value
         /\ thrown' = error
         /\ pc' = "done"
    ELSE UNCHANGED <<resultVars, pc>>

\* Bee.pssSubscribe with a handler of the caller, for a valid topic and handler.
PssSubscribe ==
  /\ pc = "idle"
  /\ op' = "pssSubscribe"
  /\ pc' = "subscribed"
  /\ wsState' = "open"
  /\ cancelled' = FALSE
  /\ UNCHANGED <<outsidePss, resultVars, timeoutMsec, preparing, events, errorEvents,
                 ignored, onMessageCalls, onErrorCalls, timer>>

\* Bee.pssReceive up to the return of its promise, for valid arguments.
PssReceive(t) ==
  /\ pc = "idle"
  /\ op' = "pssReceive"
  /\ pc' = "subscribed"
  /\ timeoutMsec' = t
  /\ wsState' = "open"
  /\ cancelled' = FALSE
  /\ timer' = IF TimerArmed(t) THEN "armed" ELSE "none"
  /\ UNCHANGED <<outsidePss, resultVars, preparing, events, errorEvents, ignored,
                 onMessageCalls, onErrorCalls>>

\* The caller of pssSubscribe calls subscription.cancel().
Cancel ==
  /\ op = "pssSubscribe"
  /\ pc = "subscribed"
  /\ DoCancel
  /\ UNCHANGED <<outsidePss, op, pc, resultVars, timeoutMsec, preparing, events,
                 errorEvents, ignored, onMessageCalls, onErrorCalls, timer>>

\* ws.onmessage up to its await: the open websocket raises a message event.
WsMessage(d) ==
  /\ wsState = "open"
  /\ events < MaxEvents
  /\ events' = events + 1
  /\ preparing' = preparing \cup {[n |-> events + 1, data |-> d]}
  /\ UNCHANGED <<outsidePss, op, pc, resultVars, timeoutMsec, cancelled, wsState,
                 errorEvents, ignored, onMessageCalls, onErrorCalls, timer>>

\* ws.onmessage after its await: an empty message is dropped, any other is
\* handed to handler.onMessage; pssReceive's handler clears the timeout, cancels
\* and resolves.
WsPrepared(m) ==
  /\ m \in preparing
  /\ preparing' = preparing \ {m}
  /\ LET data == prepareWebsocketData(m.data)
     IN IF Deliverable(data)
          THEN /\ onMessageCalls' = Append(onMessageCalls,
                                           [n |-> m.n, data |-> data, cancelled |-> cancelled])
               /\ UNCHANGED ignored
               /\ IF op = "pssReceive"
                    THEN /\ ClearTimeout
                         /\ DoCancel
                         /\ Settles("return", RetMessage(m.n), NoError)
                    ELSE UNCHANGED <<timer, cancelled, wsState, resultVars, pc>>
          ELSE /\ ignored' = ignored + 1
               /\ UNCHANGED <<onMessageCalls, timer, cancelled, wsState, resultVars, pc>>
  /\ UNCHANGED <<outsidePss, op, timeoutMsec, events, errorEvents, onErrorCalls>>

\* ws.onerror: the websocket raises an error event, open or closed; it is
\* handed to handler.onError unless the subscription was cancelled;
\* pssReceive's handler clears the timeout, cancels and rejects.
WsError ==
  /\ wsState # "none"
  /\ events < MaxEvents
  /\ events' = events + 1
  /\ errorEvents' = errorEvents + 1
  /\ IF ReportsError(cancelled)
       THEN /\ onErrorCalls' = onErrorCalls + 1
            /\ IF op = "pssReceive"
                 THEN /\ ClearTimeout
                      /\ DoCancel
                      /\ Settles("throw", NoValue, ErrorMessage("websocket error"))
                 ELSE UNCHANGED <<timer, cancelled, wsState, resultVars, pc>>
       ELSE UNCHANGED <<onErrorCalls, timer, cancelled, wsState, resultVars, pc>>
  /\ UNCHANGED <<outsidePss, op, timeoutMsec, preparing, ignored, onMessageCalls>>

\* pssReceive's timeout elapses: the subscription is cancelled and the promise
\* rejected.
TimerFire ==
  /\ timer = "armed"
  /\ timer' = "fired"
  /\ DoCancel
  /\ Settles("throw", NoValue, TimeoutError)
  /\ UNCHANGED <<outsidePss, op, timeoutMsec, preparing, events, errorEvents, ignored,
                 onMessageCalls, onErrorCalls>>

\* ------------------------------------------------------------ uploadChunk
\* The span prefix and the largest chunk payload, in bytes.
SPAN_SIZE == 8
CHUNK_SIZE == 4096

BeeArgumentError(msg) == [name |-> "BeeArgumentError", status |-> 0, message |-> msg]

\* `data.length < SPAN_SIZE`
TooSmall(len) == len < SPAN_SIZE
\* `data.length > CHUNK_SIZE + SPAN_SIZE`
TooLarge_payloadOnly(len) == len > CHUNK_SIZE
TooLarge(len) == len > CHUNK_SIZE + SPAN_SIZE

\* The arguments uploadChunk is called with.
ChunkArgs ==
  [batchOk : BOOLEAN, isBytes : BOOLEAN, len : 0..(CHUNK_SIZE + SPAN_SIZE + 2),
   optionsOk : BOOLEAN]

\* What uploadChunk throws before any request, or NoError.
ChunkArgError(a) ==
  IF ~a.batchOk THEN TypeError("invalid batch id")
  ELSE IF ~a.isBytes THEN TypeError("Data has to be Uint8Array instance!")
  ELSE IF TooSmall(a.len) THEN BeeArgumentError("Chunk has to have size of at least 8.")
  ELSE IF TooLarge(a.len) THEN BeeArgumentError("Chunk has to have size of at most 4096.")
  ELSE IF ~a.optionsOk THEN TypeError("invalid upload options")
  ELSE NoError

\* Bee.uploadChunk up to its request: the arguments are checked in the code's
\* order and the upload request is issued when all checks pass.
UploadChunk(a) ==
  /\ pc = "idle"
  /\ op' = "uploadChunk"
  /\ chunkArg' = a
  /\ IF ChunkArgError(a) = NoError
       THEN /\ pc' = "uploading"
            /\ requests' = requests + 1
            /\ UNCHANGED resultVars
       ELSE /\ pc' = "done"
            /\ result' = "throw"
            /\ thrown' = ChunkArgError(a)
            /\ UNCHANGED <<requests, retval>>
  /\ UNCHANGED <<signer, feedVars, feedType, optSigner, writerVars, pssVars, instVars>>

\* chunk.upload settles: the chunk's reference, or what the transport failed with.
UploadChunkSettle(ok) ==
  /\ pc = "uploading"
  /\ op = "uploadChunk"
  /\ pc' = "done"
  /\ result' = IF ok THEN "return" ELSE "throw"
  /\ retval' = IF ok THEN RetReference(chunkArg.len) ELSE NoValue
  /\ thrown' = IF ok THEN NoError ELSE NetworkError
  /\ UNCHANGED <<signer, feedVars, feedType, optSigner, op, writerVars, pssVars,
                 chunkVars, instVars>>

\* ------------------------------------------------- per-call request options
\* Objects.deepMerge2(target, source): a new object with the target's fields
\* overridden by those the source sets.
deepMerge2(target, source) ==
  [baseURL |-> target.baseURL,
   timeout |-> IF source.timeout # "unset" THEN source.timeout ELSE target.timeout,
   headers |-> IF source.headers # "unset" THEN source.headers ELSE target.headers]

\* Bee.getRequestOptionsForCall: the options the call runs with, and what the
\* call leaves in this.requestOptions.
getRequestOptionsForCall_inPlace(self, options) ==
  [options |-> IF options.given THEN deepMerge2(self, options) ELSE self,
   instance |-> IF options.given THEN deepMerge2(self, options) ELSE self]
getRequestOptionsForCall(self, options) ==
  [options |-> IF options.given THEN deepMerge2(self, options) ELSE self,
   instance |-> self]

\* Most calls one behaviour makes on an instance.
MaxCalls == 3

\* Any method that takes per-call request options runs with
\* getRequestOptionsForCall(options).
Request(o) ==
  /\ pc \in {"idle", "done"}
  /\ calls < MaxCalls
  /\ calls' = calls + 1
  /\ op' = "request"
  /\ pc' = "done"
  /\ LET r == getRequestOptionsForCall(requestOptions, o)
     IN /\ effective' = [for |-> o, options |-> r.options]
        /\ requestOptions' = r.instance
  /\ UNCHANGED <<signer, feedVars, feedType, optSigner, writerVars, pssVars, chunkVars,
                 resultVars, url, ctor>>

\* ------------------------------------------------------- specifications
\* Every index a probe or a chain fetch can name.
ProbeRange == 0..(4 * MaxIndex)

ReaderNext ==
  \/ \E i \in ProbeRange : ReaderIssue(i)
  \/ \E i \in ProbeRange : ReaderComplete(i)
  \/ \E i \in ProbeRange, e \in TransportErrors : ReaderFail(i, e)
  \/ ReaderReconcile
  \/ EpochLookup

Next ==
  \/ \E t \in FeedTypes, o \in AddressArgs : Download(t, o)
  \/ DownloadSettle
  \/ \E t \in FeedTypes, o \in AddressArgs, idx \in IndexArgs : IsFeedRetrievable(t, o, idx)
  \/ IsFeedRetrievableSettle
  \/ ReaderNext
  \/ \E i \in 0..MaxIndex : ChainIssue(i)
  \/ \E i \in 0..MaxIndex : ChainComplete(i)
  \/ \E i \in 0..MaxIndex, e \in TransportErrors : ChainFail(i, e)
  \/ ChainReconcile

Spec == Init /\ [][Next]_vars

\* getJsonFeed on an instance with any default signer, reading a feed its owner
\* wrote n updates to (indices 0..n-1).
WrittenFeeds ==
  {[i \in 0..MaxIndex |-> IF i < n THEN "valid" ELSE "missing"] : n \in 0..(MaxIndex + 1)}

InitJson ==
  /\ signer \in Keys \cup {NoKey}
  /\ store \in WrittenFeeds
  /\ InitCall
  /\ OtherIdle

NextJson ==
  \/ \E t \in FeedTypes, sgn \in SignerArgs \cup {NoKey}, addr \in AddressArgs \cup {NoAddressArg} :
       GetJsonFeed(t, sgn, addr)
  \/ GetJsonFeedSettle
  \/ ReaderNext

SpecJson == InitJson /\ [][NextJson]_vars

\* The operations that need a signer, on an instance with any default signer.
NextSigner ==
  \/ \E t \in FeedTypes, sgn \in SignerArgs \cup {NoKey} : GetJsonFeed(t, sgn, NoAddressArg)
  \/ GetJsonFeedSettle
  \/ ReaderNext
  \/ \E t \in FeedTypes, ta \in TopicArgs, sgn \in SignerArgs \cup {NoKey} : MakeFeedWriter(t, ta, sgn)
  \/ \E sgn \in SignerArgs \cup {NoKey} : MakeSOCWriter(sgn)
  \/ \E t \in FeedTypes, sgn \in SignerArgs \cup {NoKey} : SetJsonFeed(t, sgn)
  \/ \E p \in Payloads : SetJsonFeedWrite(p)
  \/ \E e \in TransportErrors : SetJsonFeedFail(e)

SpecSigner == InitJson /\ [][NextSigner]_vars

\* Writes through feed writers for Sequence feeds, on an instance whose default
\* signer is "k2" and a network that holds nothing of these feeds yet.
InitWriter ==
  /\ signer = "k2"
  /\ store = [i \in 0..MaxIndex |-> "missing"]
  /\ InitCall
  /\ OtherIdle

NextWriter ==
  \/ \E ta \in TopicArgs, sgn \in {"k1", NoKey} : MakeFeedWriter("sequence", ta, sgn)
  \/ \E prior \in {NoIndex, [tag |-> "num", n |-> 0]}, p \in Payloads : WriterUpload(prior, p)

SpecWriter == InitWriter /\ [][NextWriter]_vars

\* Subscriptions: one pssSubscribe or pssReceive call and what its websocket
\* and its timer do afterwards.
NextPss ==
  \/ PssSubscribe
  \/ \E t \in {0, 1000} : PssReceive(t)
  \/ Cancel
  \/ \E d \in EventData : WsMessage(d)
  \/ \E m \in preparing : WsPrepared(m)
  \/ WsError
  \/ TimerFire

\* An instance with no default signer and a network that holds nothing.
InitPlain ==
  /\ signer = NoKey
  /\ store = [i \in 0..MaxIndex |-> "missing"]
  /\ InitCall
  /\ OtherIdle

SpecPss == InitPlain /\ [][NextPss]_vars

\* The event loop runs a timeout that stays due.
SpecPssFair == SpecPss /\ WF_vars(TimerFire)

\* uploadChunk with any chunk length up to two bytes beyond the largest.
NextChunk ==
  \/ pc = "idle" /\ \E a \in ChunkArgs : UploadChunk(a)
  \/ \E ok \in BOOLEAN : UploadChunkSettle(ok)

SpecChunk == InitPlain /\ [][NextChunk]_vars

\* Sequences of calls with per-call request options and call-site signers, on
\* an instance constructed with any url, default signer and options.
InitInstance ==
  /\ signer \in Keys \cup {NoKey}
  /\ store = [i \in 0..MaxIndex |-> "missing"]
  /\ InitCall
  /\ WriterIdle /\ PssIdle /\ ChunkIdle
  /\ \E u \in Urls, o \in CtorOptions : Constructed(u, o)

NextInstance ==
  \/ \E o \in CallOptions : Request(o)
  \/ \E sgn \in Keys \cup {NoKey} : MakeSOCWriter(sgn)

SpecInstance == InitInstance /\ [][NextInstance]_vars

\* ================================================================ claims
\* The call in progress is an isFeedRetrievable call that has ended.
RetrievableDone == pc = "done" /\ op = "isFeedRetrievable"

\* Every index 0..n of owner's feed resolves to a chunk that authenticates.
AllResolve(owner, n) == \A i \in 0..n : Resolves(owner, i)

\* The valid updates of owner's feed are exactly those at 0..n.
ExactlyPrefix(owner, n) == \A i \in 0..MaxIndex : Resolves(owner, i) <=> i <= n

\* download() of a Sequence feed has ended, and not by a transport failure.
LatestResolved ==
  /\ feedType = "sequence"
  /\ readOutcome # "none"
  /\ readError \notin TransportErrors

\* C1: isFeedRetrievable with a target index N on a Sequence feed returns (when
\* no fetch fails at the transport) true if and only if every index 0..N
\* resolves to a chunk that authenticates; a missing or unauthentic chunk at
\* any index <= N makes it false.
C1_ChainCheckIff ==
  (RetrievableDone /\ index # NoIndex /\ feedType = "sequence" /\ thrown \notin TransportErrors)
    => /\ result = "return"
       /\ retval = RetBool(AllResolve(readerOwner, NumericIndex(index)))

\* N = 4 with index 2 missing and 0, 1, 3, 4 present gives false.
C1_Witness ==
  /\ RetrievableDone
  /\ feedType = "sequence"
  /\ index = [tag |-> "num", n |-> 4]
  /\ readerOwner = FeedOwner
  /\ store[2] = "missing"
  /\ \A i \in {0, 1, 3, 4} : store[i] = "valid"
  /\ result = "return"
  /\ retval = RetBool(FALSE)

\* C2: isFeedRetrievable with no target index reads the latest update and
\* returns true when the read succeeds and false when the feed is not found
\* (404); a not-found error is never thrown to the caller.
C2_NoIndexBoolean ==
  (RetrievableDone /\ index = NoIndex)
    => /\ path = "latest"
       /\ readOutcome = "ok" => (result = "return" /\ retval = RetBool(TRUE))
       /\ (readOutcome = "error" /\ readError.status = 404)
            => (result = "return" /\ retval = RetBool(FALSE))
       /\ result = "throw" => thrown.status # 404

C2_Witness ==
  /\ RetrievableDone
  /\ index = NoIndex
  /\ readOutcome = "error"
  /\ readError = NotFoundError
  /\ result = "return"
  /\ retval = RetBool(FALSE)

\* C3: isFeedRetrievable takes the latest-update path only when no target index
\* is supplied: for every supplied index of a Sequence feed, index 0 included,
\* it runs the chain check.
C3_SuppliedIndexRunsChainCheck ==
  (op = "isFeedRetrievable" /\ index # NoIndex /\ feedType = "sequence") => path = "chain"

\* C4 as claimed: with a target index on an Epoch feed the call returns a
\* boolean obtained by walking the ancestor chain.
C4_EpochWalksAncestors ==
  (RetrievableDone /\ feedType = "epoch" /\ index # NoIndex)
    => /\ result = "return"
       /\ retval.t = "bool"
       /\ path = "ancestors"

\* C4 as amended: with a target index on an Epoch feed the call walks no chain:
\* for every index argument but the number 0 it throws the BeeError "Only
\* Sequence type of Feeds is supported at the moment" before any fetch; for the
\* number 0 it takes the latest-update path, as with no index.
C4_EpochIndexUnsupported ==
  (RetrievableDone /\ feedType = "epoch" /\ index # NoIndex)
    => IF index = [tag |-> "num", n |-> 0]
         THEN path = "latest" /\ reads = 1
         ELSE /\ result = "throw"
              /\ thrown = UnsupportedTypeError
              /\ path = "none"
              /\ ~fetched
              /\ reads = 0

C4_Witness ==
  /\ RetrievableDone
  /\ feedType = "epoch"
  /\ index = [tag |-> "num", n |-> 3]
  /\ result = "throw"
  /\ thrown = UnsupportedTypeError

C6_OtherFailuresPassThrough ==
  (RetrievableDone /\ index = NoIndex /\ readOutcome = "error" /\ readError.status # 404)
    => /\ result = "throw"
       /\ thrown = readError
       /\ reads = 1

\* An error with no response at all (e.response is undefined).
C6_Witness ==
  /\ RetrievableDone
  /\ index = NoIndex
  /\ readError = NetworkError
  /\ result = "throw"
  /\ thrown = NetworkError

\* C7: readLatest on a Sequence feed whose updates exist at exactly 0..N
\* returns index N, for every N >= 0, and fails with FeedNotFound (404) when
\* index 0 is absent.
C7_ContiguousLatest ==
  LatestResolved
    => /\ \A n \in 0..MaxIndex :
            ExactlyPrefix(readerOwner, n) => (readOutcome = "ok" /\ readIndex = n)
       /\ ~Resolves(readerOwner, 0) => (readOutcome = "error" /\ readError = NotFoundError)

\* Present {0,1,2,3,4}, missing 5: returns 4.
C7_Witness ==
  /\ op = "download"
  /\ pc = "done"
  /\ feedType = "sequence"
  /\ ExactlyPrefix(readerOwner, 4)
  /\ result = "return"
  /\ retval = RetUpdate(4)

\* The highest index of owner's feed that holds a valid chunk (-1: none).
HighestValid(owner) ==
  IF \E i \in 0..MaxIndex : Resolves(owner, i)
    THEN CHOOSE i \in 0..MaxIndex :
           Resolves(owner, i) /\ \A j \in 0..MaxIndex : Resolves(owner, j) => j <= i
    ELSE -1

JsonOwnerSettled == op = "getJsonFeed" /\ pc # "idle" /\ optSigner # "malformed"

\* C10 as claimed: a call-site signer takes precedence over a call-site
\* address, which takes precedence over the default signer.
C10_SignerOverAddressOverDefault ==
  (JsonOwnerSettled /\ (optSigner # NoKey \/ optAddress # NoAddressArg \/ signer # NoKey))
    => readerOwner = IF optSigner # NoKey THEN AddrOfKey(optSigner)
                     ELSE IF optAddress # NoAddressArg THEN optAddress.a
                     ELSE AddrOfKey(signer)

\* C10 as amended: a call-site signer and a call-site address exclude each
\* other (both given: BeeError, no owner resolved, no read); either of them
\* given alone takes precedence over the default signer, which is used only
\* when neither is given.
C10_OwnerResolution ==
  JsonOwnerSettled
    => IF optSigner # NoKey /\ optAddress # NoAddressArg
         THEN result = "throw" /\ thrown = BothGivenError /\ readerOwner = NoAddress /\ reads = 0
       ELSE IF optSigner # NoKey THEN readerOwner = AddrOfKey(optSigner)
       ELSE IF optAddress # NoAddressArg THEN readerOwner = optAddress.a
       ELSE IF signer # NoKey THEN readerOwner = AddrOfKey(signer)
       ELSE result = "throw" /\ thrown = NoOwnerError /\ readerOwner = NoAddress

\* The call-site signer k1 wins over the default signer k2.
C10_Witness ==
  /\ op = "getJsonFeed"
  /\ pc = "done"
  /\ signer = "k2"
  /\ optSigner = "k1"
  /\ optAddress = NoAddressArg
  /\ readerOwner = "a1"
  /\ result = "return"

\* C11: getJsonFeed treats options.signer and options.address as mutually
\* exclusive: with both given it fails with a BeeError before any feed read is
\* issued, whatever the default signer is.
C11_SignerAndAddressExclusive ==
  (op = "getJsonFeed" /\ pc # "idle" /\ optSigner # NoKey /\ optAddress # NoAddressArg)
    => /\ pc = "done"
       /\ result = "throw"
       /\ thrown.name = "BeeError"
       /\ thrown = BothGivenError
       /\ reads = 0
       /\ ~fetched
       /\ readOutcome = "none"

\* Both given on an instance that has a default signer.
C11_Witness ==
  /\ op = "getJsonFeed"
  /\ pc = "done"
  /\ signer = "k2"
  /\ optSigner = "k1"
  /\ optAddress = [form |-> "hex", a |-> "a1"]
  /\ result = "throw"
  /\ thrown = BothGivenError

\* The call in progress needs a signer: a writer is made, a JSON feed is set,
\* or a JSON feed is read with no options.address.
NeedsSigner ==
  /\ pc # "idle"
  /\ \/ op \in {"makeFeedWriter", "makeSOCWriter", "setJsonFeed"}
     \/ op = "getJsonFeed" /\ optAddress = NoAddressArg

\* The call in progress went on with the signer of key k: its writer signs
\* with k, or its reader reads the feed of k's address.
ProceedsWith(k) ==
  /\ ~(pc = "done" /\ result = "throw" /\ thrown.name \in {"BeeError", "TypeError"})
  /\ IF op = "getJsonFeed"
       THEN reads = 1 /\ readerOwner = AddrOfKey(k)
       ELSE writer # NoWriter /\ writer.key = k

\* The call in progress failed for its signer and did nothing else.
FailsWith(name) ==
  /\ pc = "done"
  /\ result = "throw"
  /\ thrown.name = name
  /\ writer = NoWriter
  /\ reads = 0
  /\ written = <<>>

\* C12: an operation that needs a signer uses the signer passed to the call
\* when there is one, else the instance's default signer, and fails with a
\* BeeError when there is neither; it never goes on without a signer.
C12_SignerResolution ==
  NeedsSigner =>
    /\ optSigner \in Keys => ProceedsWith(optSigner)
    /\ optSigner = "malformed" => FailsWith("TypeError")
    /\ (optSigner = NoKey /\ signer # NoKey) => ProceedsWith(signer)
    /\ (optSigner = NoKey /\ signer = NoKey) => FailsWith("BeeError")
    /\ writer # NoWriter => writer.key \in Keys
    /\ reads > 0 => readerOwner \in {AddrOfKey(k) : k \in Keys}
    /\ \A i \in DOMAIN written : written[i].key \in Keys

\* setJsonFeed with no signer anywhere failed with the BeeError.
C12_Witness ==
  /\ op = "setJsonFeed"
  /\ pc = "done"
  /\ optSigner = NoKey
  /\ signer = NoKey
  /\ result = "throw"
  /\ thrown = NoSignerError

C13_ReceiveFirstMessage ==
  op = "pssReceive" =>
    /\ \A i \in DOMAIN onMessageCalls : Len(onMessageCalls[i].data.content) > 0
    /\ onMessageCalls # <<>> => (result # "pending" /\ cancelled /\ wsState = "closed")
    /\ result = "return" =>
         /\ onMessageCalls # <<>>
         /\ retval = RetMessage(onMessageCalls[1].n)
         /\ ~onMessageCalls[1].cancelled
    /\ (onMessageCalls = <<>> /\ onErrorCalls = 0 /\ timer # "fired") =>
         (result = "pending" /\ ~cancelled /\ wsState = "open")

\* An empty message was dropped, then a later one resolved the promise.
C13_Witness ==
  /\ op = "pssReceive"
  /\ ignored > 0
  /\ result = "return"
  /\ Len(onMessageCalls) = 1
  /\ onMessageCalls[1].n > 1
  /\ cancelled

\* C14, safety: a timeout that elapses rejects with BeeError 'pssReceive
\* timeout' and cancels the subscription; with timeoutMsec = 0 no timeout is
\* armed and the promise is never rejected for one.
TimeoutSafety ==
  op = "pssReceive" =>
    /\ timer = "fired" => (result = "throw" /\ thrown = TimeoutError /\ cancelled)
    /\ thrown = TimeoutError => timer = "fired"
    /\ timeoutMsec = 0 => (timer = "none" /\ thrown # TimeoutError)
    /\ (timeoutMsec > 0 /\ result = "pending") => timer = "armed"

\* C14: with timeoutMsec > 0 pssReceive always eventually settles, by the
\* timeout if nothing else settles it first; with timeoutMsec = 0 it is never
\* rejected because of a timeout.
C14_TimeoutSettles ==
  /\ []TimeoutSafety
  /\ [](op = "pssReceive" /\ timeoutMsec > 0 => <>(result # "pending"))

\* No message and no error came, and the timeout rejected the promise.
C14_Witness ==
  /\ op = "pssReceive"
  /\ timeoutMsec > 0
  /\ events = 0
  /\ timer = "fired"
  /\ result = "throw"
  /\ thrown = TimeoutError
  /\ cancelled

\* C17: once cancel() has been called, handler.onError is not invoked any more.
C17_NoErrorAfterCancel ==
  [][cancelled => onErrorCalls' = onErrorCalls]_vars

\* The websocket raised an error after the caller's cancel; it was not reported.
C17_Witness ==
  /\ op = "pssSubscribe"
  /\ cancelled
  /\ errorEvents > 0
  /\ onErrorCalls = 0

\* C18: once cancel() has been called, handler.onMessage is not invoked any
\* more, also not for a message received before the cancel whose data was
\* still being prepared.
C18_NoMessageAfterCancel ==
  \A i \in DOMAIN onMessageCalls : ~onMessageCalls[i].cancelled

\* C15: uploadChunk accepts a chunk exactly when
\* SPAN_SIZE <= data.length <= CHUNK_SIZE + SPAN_SIZE; a shorter or longer
\* chunk fails with BeeArgumentError and no upload request is issued.
C15_ChunkSizeChecked ==
  (op = "uploadChunk" /\ pc # "idle" /\ chunkArg.batchOk /\ chunkArg.isBytes) =>
    IF SPAN_SIZE <= chunkArg.len /\ chunkArg.len <= CHUNK_SIZE + SPAN_SIZE
      THEN /\ ~(result = "throw" /\ thrown.name = "BeeArgumentError")
           /\ chunkArg.optionsOk => requests = 1
      ELSE /\ pc = "done"
           /\ result = "throw"
           /\ thrown.name = "BeeArgumentError"
           /\ requests = 0

\* A chunk one byte beyond the largest was refused.
C15_Witness ==
  /\ op = "uploadChunk"
  /\ chunkArg.batchOk /\ chunkArg.isBytes
  /\ chunkArg.len = CHUNK_SIZE + SPAN_SIZE + 1
  /\ result = "throw"
  /\ thrown.name = "BeeArgumentError"
  /\ requests = 0

\* C19: a Bee instance holds no mutable state across calls: after any sequence
\* of calls with any per-call request options, url, default signer and default
\* request options are those the constructor set, so each call runs with the
\* constructor's options overridden by its own options only.
C19_InstanceUnchanged ==
  /\ url = ctor.url
  /\ signer = ctor.signer
  /\ requestOptions = ctor.requestOptions
  /\ effective.options.baseURL = ctor.url
  /\ effective.options.timeout =
       IF effective.for.timeout # "unset" THEN effective.for.timeout
       ELSE ctor.requestOptions.timeout
  /\ effective.options.headers =
       IF effective.for.headers # "unset" THEN effective.for.headers
       ELSE ctor.requestOptions.headers

\* A call with no options of its own ran after calls that had overridden the
\* timeout and the headers, and after a call with a signer of its own.
C19_Witness ==
  /\ calls = MaxCalls
  /\ op = "request"
  /\ ~effective.for.given
  /\ effective.options = ctor.requestOptions
  /\ writer.key = "k1"
  /\ signer = "k2"
  /\ ctor.requestOptions.timeout = "t9"

====
